---- MODULE Spec2Model ----
(***************************************************************************)
(* Model of midi-blackbox (src/src/main.rs): the RecordingSession engine   *)
(* (add_event, save_to_file, reset) and the do_recording process that      *)
(* drives it from the MIDI input callback, the supervisor loop and the     *)
(* SIGINT shutdown path.                                                   *)
(*                                                                         *)
(* Time: `now` is the monotonic clock (std::time::Instant) in microseconds *)
(* since the process started.  The wall clock (chrono::Local::now) is read *)
(* to whole seconds as wall_base + now \div 1000000.                       *)
(*                                                                         *)
(* Two specifications:                                                     *)
(*   Spec    - one RecordingSession driven by any sequence of add_event    *)
(*             and save_to_file calls, with any I/O outcome;               *)
(*   SpecRec - the do_recording process: callback thread, main thread      *)
(*             (supervisor loop, final flush), SIGINT, the session Mutex.  *)
(***************************************************************************)
EXTENDS Integers, Sequences, FiniteSets, TLC

\* ------------------------------------------------------------------ bounds
MaxSeconds == 1         \* Spec: the clock stays within this many seconds
MaxMessages == 3        \* Spec: live events handed to add_event
MaxBuffer == 3          \* Spec: save_to_file is called only on a buffer shorter than this
MaxRecSeconds == 10     \* SpecRec: the clock stays within this many seconds
MaxRecMessages == 2     \* SpecRec: raw messages the port delivers

\* ------------------------------------------------------- program constants
DEFAULT_USEC_PER_TICK == 500
DEFAULT_TICKS_PER_BEAT == 1000
InactivitySecs == 8     \* Duration::from_secs(8)
SleepSecs == 1          \* Duration::from_secs(1)
UsecPerSec == 1000000   \* Duration::as_micros / as_secs_f64
SecsPerDay == 86400     \* the calendar date of a wall-clock second
U28Modulus == 268435456 \* 2^28, midly::num::u28

VARIABLES
    first_event_time,   \* RecordingSession.first_event_time : Option<Instant>
    last_event_time,    \* RecordingSession.last_event_time  : Option<Instant>
    events,             \* RecordingSession.events : Vec<TrackEvent>
    last_stored_at,     \* history: the clock value when the last channel-voice entry was buffered
    added,              \* history: the payloads of the channel-voice events handed to add_event
    now,                \* Instant::now(), microseconds
    wall_base,          \* wall-clock second at now = 0
    dirs,               \* the date directories that exist under the archive root
    files,              \* path -> content of the files under the archive root
    ret,                \* what the last save_to_file call returned ("-" : none)
    next_msg,           \* number of messages delivered so far, plus one (the next payload id)
    lock,               \* holder of the session Mutex: "free", "cb", "main"
    cb_pc,              \* input callback: "idle", "lock" (blocked at line 192), "add" (line 193)
    cb_event,           \* the parsed LiveEvent the callback is delivering
    pc,                 \* main thread of do_recording
    stop,               \* the AtomicBool set by SIGINT
    wake_at,            \* end of the current thread::sleep
    connected,          \* the midir connection (_connection) is alive
    exit_code,          \* process exit status, None while running
    filtered,           \* history: messages the callback returned on at line 185
    final_ret           \* history: what the final flush of line 213 returned ("-" : not called)

session == <<first_event_time, last_event_time, events, last_stored_at, added>>
fs == <<dirs, files>>
proc == <<lock, cb_pc, cb_event, pc, stop, wake_at, connected, exit_code, filtered, final_ret>>
vars == <<first_event_time, last_event_time, events, last_stored_at, added, now, wall_base,
          dirs, files, ret, next_msg, lock, cb_pc, cb_event, pc, stop, wake_at, connected,
          exit_code, filtered, final_ret>>

\* ------------------------------------------------------------ Option<T>
None == <<>>
Some(t) == <<t>>
is_none(o) == o = None
is_some(o) == o # None
unwrap(o) == o[1]

\* -------------------------------------------------------------- helpers
\* Instant::duration_since (saturating).
duration_since(t, earlier) == IF t >= earlier THEN t - earlier ELSE 0

\* u28::from(u32): keeps the low 28 bits.
u28_from(x) == x % U28Modulus

\* Line 48-49: elapsed.as_micros() as u64 / usec_per_tick as u64, as u32.
\* (The u64 and u32 truncations are the identity on every value below 2^31.)
delta_ticks_of(elapsed) == elapsed \div DEFAULT_USEC_PER_TICK

\* Duration::as_secs_f64().ceil() as i64, for a duration in microseconds.
ceil_secs(d) == (d + UsecPerSec - 1) \div UsecPerSec

\* chrono::Local::now(), to the second.
wall_second == wall_base + now \div UsecPerSec

LiveKinds == {"Midi", "Common", "Realtime"}

\* A translation that also stores System Common events (mutant of
\* live_event_to_track_event_kind).
live_event_to_track_event_kind_common(event) ==
    IF event.kind \in {"Midi", "Common"} THEN Some([kind |-> "Midi", msg |-> event.msg])
    ELSE None

\* live_event_to_track_event_kind: Some(kind) for channel voice, None otherwise.
live_event_to_track_event_kind(event) ==
    IF event.kind = "Midi" THEN Some([kind |-> "Midi", msg |-> event.msg])
    ELSE None

EndOfTrack == [kind |-> "EndOfTrack", msg |-> 0]

TrackEvent(delta, kind) == [delta |-> delta, kind |-> kind.kind, msg |-> kind.msg]

\* ------------------------------------------------------ RecordingSession
\* RecordingSession::new
new ==
    /\ first_event_time = None
    /\ last_event_time = None
    /\ events = <<>>
    /\ last_stored_at = None

\* A reset that forgets to unset last_event_time (mutant of reset).
reset_keeps_last ==
    /\ first_event_time' = None
    /\ last_event_time' = last_event_time
    /\ events' = <<>>
    /\ last_stored_at' = None

\* A reset that leaves the written entries in the buffer (mutant of reset).
reset_keeps_events ==
    /\ first_event_time' = None
    /\ last_event_time' = None
    /\ events' = events
    /\ last_stored_at' = None

\* RecordingSession::reset
reset ==
    /\ first_event_time' = None
    /\ last_event_time' = None
    /\ events' = <<>>
    /\ last_stored_at' = None

\* RecordingSession::add_event
add_event(event) ==
    LET elapsed_since_last ==
            IF is_some(last_event_time)
            THEN duration_since(now, unwrap(last_event_time))
            ELSE 0
        delta_ticks == delta_ticks_of(elapsed_since_last)
        kind == live_event_to_track_event_kind(event)
    IN  /\ first_event_time' =
              IF is_none(first_event_time) THEN Some(now) ELSE first_event_time
        /\ last_event_time' = Some(now)
        /\ IF is_some(kind)
           THEN /\ events' = Append(events, TrackEvent(u28_from(delta_ticks), unwrap(kind)))
                /\ last_stored_at' = Some(now)
           ELSE UNCHANGED <<events, last_stored_at>>
        /\ added' = IF event.kind = "Midi" THEN added \cup {event.msg} ELSE added

\* RecordingSession::target_directory: the date directory of the wall clock.
target_directory == wall_second \div SecsPerDay

\* A file name whose count leaves out the end-of-track marker (mutant of file_path).
file_path_without_marker ==
    [dir |-> target_directory,
     time |-> wall_second,
     count |-> Len(events),
     secs |-> ceil_secs(duration_since(unwrap(last_event_time), unwrap(first_event_time)))]

\* The file name of line 96-105 under the date directory.
file_path ==
    [dir |-> target_directory,
     time |-> wall_second,
     count |-> Len(events) + 1,
     secs |-> ceil_secs(duration_since(unwrap(last_event_time), unwrap(first_event_time)))]

\* Smf::new(header) with the one track, as written by smf.write.
smf(track) ==
    [format |-> "SingleTrack", ticks_per_beat |-> DEFAULT_TICKS_PER_BEAT, track |-> track]

IoOutcomes == {"ok", "mkdir_fail", "not_dir", "open_fail", "write_fail"}

\* An open with create(true).truncate(true) instead of create_new (mutant of
\* open_create_new).
open_truncating(path, io) ==
    IF io = "open_fail" THEN "Err_Open" ELSE "Ok"

\* OpenOptions::new().write(true).create_new(true).open(path)
open_create_new(path, io) ==
    IF path \in DOMAIN files THEN "Err_AlreadyExists"
    ELSE IF io = "open_fail" THEN "Err_Open"
    ELSE "Ok"

\* The file system after `content` was written to the file opened at `path`.
written(path, content) ==
    [p \in DOMAIN files \cup {path} |-> IF p = path THEN content ELSE files[p]]

\* RecordingSession::save_to_file; io is what the file system does to this call.
save_to_file(io) ==
    IF is_none(first_event_time)
    THEN \* line 89-93
         /\ ret' = IF events = <<>> THEN "Ok" ELSE "panic"
         /\ UNCHANGED <<session, fs>>
    ELSE IF ~(events # <<>> /\ is_some(last_event_time))
    THEN \* line 94: the assertion fails
         /\ ret' = "panic"
         /\ UNCHANGED <<session, fs>>
    ELSE IF io = "mkdir_fail"
    THEN \* line 77: fs::create_dir_all fails
         /\ ret' = "Err_CreateDir"
         /\ UNCHANGED <<session, fs>>
    ELSE IF io = "not_dir"
    THEN \* line 79-84
         /\ ret' = "Err_NotADirectory"
         /\ UNCHANGED <<session, fs>>
    ELSE LET path == file_path
             track == Append(events, TrackEvent(u28_from(0), EndOfTrack))
             opened == open_create_new(path, io)
         IN  /\ dirs' = dirs \cup {target_directory}
             /\ added' = added
             /\ IF opened # "Ok"
                THEN \* line 129-132: the open fails, after line 107 pushed the marker
                     /\ ret' = opened
                     /\ events' = track
                     /\ UNCHANGED <<first_event_time, last_event_time, last_stored_at, files>>
                ELSE IF io = "write_fail"
                THEN \* line 133: the file was created, write_all fails
                     /\ ret' = "Err_Write"
                     /\ events' = track
                     /\ files' = written(path, [complete |-> FALSE, content |-> smf(<<>>)])
                     /\ UNCHANGED <<first_event_time, last_event_time, last_stored_at>>
                ELSE /\ ret' = "Ok"
                     /\ files' = written(path, [complete |-> TRUE, content |-> smf(track)])
                     /\ reset

\* ------------------------------------------------------------------ Spec
\* The instants at which calls are made.
Instants ==
    {0, 700} \cup {s * UsecPerSec : s \in 1..MaxSeconds}

Init ==
    /\ new
    /\ added = {}
    /\ now = 0
    /\ wall_base = SecsPerDay - 1     \* the last second of a day: the date changes at now = 1 s
    /\ dirs = {}
    /\ files = <<>>
    /\ ret = "-"
    /\ next_msg = 1
    /\ lock = "free"
    /\ cb_pc = "idle"
    /\ cb_event = None
    /\ pc = "api"
    /\ stop = FALSE
    /\ wake_at = 0
    /\ connected = FALSE
    /\ exit_code = None
    /\ filtered = 0
    /\ final_ret = "-"

\* Time passes between two calls.
Advance ==
    /\ ret # "panic"
    /\ \E t \in Instants : t > now /\ now' = t
    /\ ret' = "-"
    /\ UNCHANGED <<session, wall_base, fs, next_msg, proc>>

\* A caller hands a parsed live event to add_event.
AddEvent ==
    /\ ret # "panic"
    /\ next_msg <= MaxMessages
    /\ \E k \in LiveKinds : add_event([kind |-> k, msg |-> next_msg])
    /\ next_msg' = next_msg + 1
    /\ ret' = "-"
    /\ UNCHANGED <<now, wall_base, fs, proc>>

\* A caller calls save_to_file (flush).
Flush ==
    /\ ret # "panic"
    /\ Len(events) < MaxBuffer
    /\ \E io \in IoOutcomes : save_to_file(io)
    /\ UNCHANGED <<now, wall_base, next_msg, proc>>

Next == Advance \/ AddEvent \/ Flush

Spec == Init /\ [][Next]_vars

\* --------------------------------------------------------------- SpecRec
\* do_recording, from line 173 on: the session is new, the connection is open.
InitRec ==
    /\ new
    /\ added = {}
    /\ now = 0
    /\ wall_base = 0
    /\ dirs = {}
    /\ files = <<>>
    /\ ret = "-"
    /\ next_msg = 1
    /\ lock = "free"
    /\ cb_pc = "idle"
    /\ cb_event = None
    /\ pc = "loop"
    /\ stop = FALSE
    /\ wake_at = 0
    /\ connected = TRUE
    /\ exit_code = None
    /\ filtered = 0
    /\ final_ret = "-"

running == exit_code = None

\* The leading status bytes of the raw messages the port delivers:
\* 0x10 (a data byte), 0x90 note on, 0xF1 MTC quarter frame, 0xF8 timing clock,
\* 0xFA start, 0xFE active sensing.
RawStatus == {16, 144, 241, 248, 250, 254}

\* LiveEvent::parse, by the leading byte: "Err" when it is no status byte.
parse(status) ==
    IF status < 128 THEN "Err"
    ELSE IF status < 240 THEN "Midi"
    ELSE IF status < 248 THEN "Common"
    ELSE "Realtime"

\* A filter that lets the timing clock through (mutant of is_filtered).
is_filtered_sensing_only(status) == status = 254

\* Line 184: message[0] == 0xFE || message[0] == 0xF8
is_filtered(status) == status = 254 \/ status = 248

\* Line 182-191: the callback is invoked with a message whose leading byte is status.
Receive(status) ==
    /\ running /\ connected
    /\ cb_pc = "idle"
    /\ next_msg <= MaxRecMessages
    /\ next_msg' = next_msg + 1
    /\ IF is_filtered(status)
       THEN \* line 185
            /\ filtered' = filtered + 1
            /\ UNCHANGED <<cb_pc, cb_event>>
       ELSE IF parse(status) = "Err"
       THEN \* line 188: no event
            UNCHANGED <<cb_pc, cb_event, filtered>>
       ELSE /\ cb_event' = Some([kind |-> parse(status), msg |-> next_msg])
            /\ cb_pc' = "lock"
            /\ filtered' = filtered
    /\ UNCHANGED <<session, now, wall_base, fs, ret, lock, pc, stop, wake_at, connected,
                   exit_code, final_ret>>

CbReceive == \E status \in RawStatus : Receive(status)

\* Line 192: session_clone.lock().unwrap()
CbLock ==
    /\ running
    /\ cb_pc = "lock"
    /\ lock = "free"
    /\ lock' = "cb"
    /\ cb_pc' = "add"
    /\ UNCHANGED <<session, now, wall_base, fs, ret, next_msg, cb_event, pc, stop, wake_at,
                   connected, exit_code, filtered, final_ret>>

\* Line 193-194: add_event, then the guard is dropped.
CbAddEvent ==
    /\ running
    /\ cb_pc = "add"
    /\ add_event(unwrap(cb_event))
    /\ lock' = "free"
    /\ cb_pc' = "idle"
    /\ cb_event' = None
    /\ UNCHANGED <<now, wall_base, fs, ret, next_msg, pc, stop, wake_at, connected,
                   exit_code, filtered, final_ret>>

\* SIGINT sets the flag registered at line 200.
Sigint ==
    /\ running
    /\ ~stop
    /\ stop' = TRUE
    /\ UNCHANGED <<session, now, wall_base, fs, ret, next_msg, lock, cb_pc, cb_event, pc,
                   wake_at, connected, exit_code, filtered, final_ret>>

\* A loop exit that returns without the final flush of line 213 (mutant of LoopTest).
LoopTest_skips_final ==
    /\ running
    /\ pc = "loop"
    /\ IF stop
       THEN pc' = "return_ok" /\ wake_at' = wake_at
       ELSE pc' = "sleep" /\ wake_at' = now + SleepSecs * UsecPerSec
    /\ UNCHANGED <<session, now, wall_base, fs, ret, next_msg, lock, cb_pc, cb_event, stop,
                   connected, exit_code, filtered, final_ret>>

\* Line 202: while !stop.load(..), and the start of the sleep of line 203.
LoopTest ==
    /\ running
    /\ pc = "loop"
    /\ IF stop
       THEN pc' = "final_lock" /\ wake_at' = wake_at
       ELSE pc' = "sleep" /\ wake_at' = now + SleepSecs * UsecPerSec
    /\ UNCHANGED <<session, now, wall_base, fs, ret, next_msg, lock, cb_pc, cb_event, stop,
                   connected, exit_code, filtered, final_ret>>

\* Line 203: the sleep ends, no earlier than a second after it began.
Wake ==
    /\ running
    /\ pc = "sleep"
    /\ now >= wake_at
    /\ pc' = "try_lock"
    /\ UNCHANGED <<session, now, wall_base, fs, ret, next_msg, lock, cb_pc, cb_event, stop,
                   wake_at, connected, exit_code, filtered, final_ret>>

\* A try_lock that takes the session even when the callback holds it (mutant of
\* TryLock).
TryLock_always ==
    /\ running
    /\ pc = "try_lock"
    /\ lock' = "main" /\ pc' = "check"
    /\ UNCHANGED <<session, now, wall_base, fs, ret, next_msg, cb_pc, cb_event, stop,
                   wake_at, connected, exit_code, filtered, final_ret>>

\* Line 204: session.try_lock()
TryLock ==
    /\ running
    /\ pc = "try_lock"
    /\ IF lock = "free"
       THEN lock' = "main" /\ pc' = "check"
       ELSE lock' = lock /\ pc' = "loop"
    /\ UNCHANGED <<session, now, wall_base, fs, ret, next_msg, cb_pc, cb_event, stop,
                   wake_at, connected, exit_code, filtered, final_ret>>

\* An inactivity test whose threshold is a sleep period longer (mutant of inactive).
inactive_late ==
    /\ is_some(last_event_time)
    /\ duration_since(now, unwrap(last_event_time)) > (InactivitySecs + SleepSecs) * UsecPerSec

\* Line 206: the inactivity test on last_event_time.
inactive ==
    /\ is_some(last_event_time)
    /\ duration_since(now, unwrap(last_event_time)) > InactivitySecs * UsecPerSec

\* Line 205-210: the check under the lock; the guard is dropped when no flush is due.
Check ==
    /\ running
    /\ pc = "check"
    /\ IF inactive
       THEN pc' = "save" /\ lock' = lock
       ELSE pc' = "loop" /\ lock' = "free"
    /\ UNCHANGED <<session, now, wall_base, fs, ret, next_msg, cb_pc, cb_event, stop,
                   wake_at, connected, exit_code, filtered, final_ret>>

\* A caller that ignores the Err of save_to_file and carries on (mutant of after_save).
after_save_ignores_err(ok_pc) ==
    IF ret' = "panic"
    THEN /\ pc' = "done"
         /\ exit_code' = Some(101)
         /\ connected' = FALSE
         /\ lock' = lock
    ELSE /\ pc' = ok_pc
         /\ lock' = "free"
         /\ UNCHANGED <<connected, exit_code>>

\* What follows a save_to_file call of the main thread: on Ok the guard is dropped
\* and the thread goes on at ok_pc; on Err the `?` returns from do_recording; a
\* panic of the main thread ends the process with status 101.
after_save(ok_pc) ==
    IF ret' = "panic"
    THEN /\ pc' = "done"
         /\ exit_code' = Some(101)
         /\ connected' = FALSE
         /\ lock' = lock
    ELSE /\ pc' = IF ret' = "Ok" THEN ok_pc ELSE "return_err"
         /\ lock' = "free"
         /\ UNCHANGED <<connected, exit_code>>

\* Line 207: the supervisor's flush.
SupervisorSave ==
    /\ running
    /\ pc = "save"
    /\ \E io \in IoOutcomes : save_to_file(io)
    /\ after_save("loop")
    /\ UNCHANGED <<now, wall_base, next_msg, cb_pc, cb_event, stop, wake_at, filtered,
                   final_ret>>

\* Line 213: session.lock().unwrap(), blocking.
FinalLock ==
    /\ running
    /\ pc = "final_lock"
    /\ lock = "free"
    /\ lock' = "main"
    /\ pc' = "final_save"
    /\ UNCHANGED <<session, now, wall_base, fs, ret, next_msg, cb_pc, cb_event, stop,
                   wake_at, connected, exit_code, filtered, final_ret>>

\* Line 213: the final flush.
FinalSave ==
    /\ running
    /\ pc = "final_save"
    /\ \E io \in IoOutcomes : save_to_file(io)
    /\ after_save("return_ok")
    /\ final_ret' = ret'
    /\ UNCHANGED <<now, wall_base, next_msg, cb_pc, cb_event, stop, wake_at, filtered>>

\* Line 215-217 and 280-283: do_recording returns, its locals (the connection)
\* are dropped, and main exits: 0 after Ok, 1 after Err.
Return ==
    /\ running
    /\ pc \in {"return_ok", "return_err"}
    /\ pc' = "done"
    /\ connected' = FALSE
    /\ exit_code' = Some(IF pc = "return_ok" THEN 0 ELSE 1)
    /\ UNCHANGED <<session, now, wall_base, fs, ret, next_msg, lock, cb_pc, cb_event, stop,
                   wake_at, filtered, final_ret>>

\* A second passes.
Elapse ==
    /\ running
    /\ now + UsecPerSec <= MaxRecSeconds * UsecPerSec
    /\ now' = now + UsecPerSec
    /\ UNCHANGED <<session, wall_base, fs, ret, next_msg, proc>>

NextRec ==
    \/ CbReceive \/ CbLock \/ CbAddEvent
    \/ Sigint
    \/ LoopTest \/ Wake \/ TryLock \/ Check \/ SupervisorSave
    \/ FinalLock \/ FinalSave \/ Return
    \/ Elapse

SpecRec == InitRec /\ [][NextRec]_vars

\* ---------------------------------------------------------------- timed run
\* The recorder with the supervisor polling on schedule: the sleep of line 203 lasts
\* SleepSecs and every other step of either thread takes no time, so time passes only
\* while the main thread sleeps and the callback is outside add_event. Within a sleep
\* the clock stops once at two thirds of the period and at its end.
TimedElapse ==
    /\ running
    /\ pc = "sleep"
    /\ cb_pc # "add"
    /\ now < wake_at
    /\ wake_at <= MaxRecSeconds * UsecPerSec
    /\ \E t \in {wake_at - UsecPerSec \div 3, wake_at} :
          /\ t > now
          /\ now' = t
    /\ UNCHANGED <<session, wall_base, fs, ret, next_msg, proc>>

NextTimed ==
    \/ CbReceive \/ CbLock \/ CbAddEvent
    \/ Sigint
    \/ LoopTest \/ Wake \/ TryLock \/ Check \/ SupervisorSave
    \/ FinalLock \/ FinalSave \/ Return
    \/ TimedElapse

SpecTimed == InitRec /\ [][NextTimed]_vars

\* ---------------------------------------------------------------- claims
FlushErrors == {"Err_CreateDir", "Err_NotADirectory", "Err_AlreadyExists", "Err_Open", "Err_Write"}

IsChannelVoice(e) == e.kind = "Midi"

\* The complete file, if any, whose track holds the channel-voice entry with payload m.
InSomeFile(m) ==
    \E p \in DOMAIN files :
        /\ files[p].complete
        /\ \E i \in 1..Len(files[p].content.track) :
              /\ files[p].content.track[i].kind = "Midi"
              /\ files[p].content.track[i].msg = m

\* C1: in every state reached by add_event and flush calls the buffer is empty
\* iff first_event_time is unset, so the assertions at the entry of flush never fail.
C1_BufferEmptyIffFirstUnset ==
    /\ (events = <<>>) <=> is_none(first_event_time)
    /\ ret # "panic"

\* C2: a flush that returns an I/O error leaves the buffer, first_event_time and
\* last_event_time exactly as they were before the call.
C2_FailedFlushLeavesState ==
    [][ret' \in FlushErrors =>
          UNCHANGED <<first_event_time, last_event_time, events>>]_vars

\* C3: an entry buffered after an earlier entry of the same burst gets
\* delta_ticks = floor(microseconds since that earlier entry arrived / 500).
C3_DeltaSincePreviousStored ==
    [][(/\ is_some(last_stored_at)
        /\ Len(events') = Len(events) + 1
        /\ IsChannelVoice(events'[Len(events')]))
       => events'[Len(events')].delta =
             (now - unwrap(last_stored_at)) \div DEFAULT_USEC_PER_TICK]_vars

\* C4: whenever the buffer is non-empty its first entry has delta_ticks = 0.
C4_FirstEntryDeltaZero ==
    events # <<>> => events[1].delta = 0

\* C5: when the process has exited with status 0 after a termination signal, every
\* entry that add_event buffered is in a completely written file.
C5_NoDataLostOnTermination ==
    (stop /\ exit_code = Some(0)) => \A m \in added : InSomeFile(m)

\* C6: when the supervisor's check runs under the lock with a non-empty buffer and
\* more than 8 seconds have passed since the last buffered entry, it goes on to flush.
C6_InactivityCheckFlushes ==
    [][(/\ pc = "check" /\ pc' # "check"
        /\ events # <<>>
        /\ is_some(last_stored_at)
        /\ now - unwrap(last_stored_at) > InactivitySecs * UsecPerSec)
       => pc' = "save"]_vars

\* C7: a flush called while the buffer is empty returns Ok, creates no directory
\* and no file, and leaves the session state unchanged.
C7_IdleFlushIsNoop ==
    [][(ret' # "-" /\ events = <<>>) =>
          /\ ret' = "Ok"
          /\ UNCHANGED <<first_event_time, last_event_time, events, dirs, files>>]_vars

\* C8: a successful flush of a non-empty buffer writes one new file whose track is
\* the channel-voice entries of the buffer, in order with their deltas, followed by
\* exactly one end-of-track marker with delta 0.
C8_FileHoldsEntriesThenOneMarker ==
    [][(ret' = "Ok" /\ events # <<>>) =>
          \E p \in DOMAIN files' \ DOMAIN files :
              /\ files'[p].complete
              /\ files'[p].content.track =
                    Append(SelectSeq(events, IsChannelVoice), TrackEvent(0, EndOfTrack))]_vars

\* C9: after a successful flush of a non-empty buffer the session is as new: buffer
\* empty, first_event_time and last_event_time unset.
C9_SuccessfulFlushResets ==
    [][(ret' = "Ok" /\ events # <<>>) =>
          /\ first_event_time' = None
          /\ last_event_time' = None
          /\ events' = <<>>]_vars

\* C9 witness: a flush has just returned Ok, the one file it wrote holds the one
\* entry that was buffered, and the session is idle.
C9_Witness ==
    /\ ret = "Ok"
    /\ added = {1}
    /\ InSomeFile(1)
    /\ events = <<>>

\* C10: no step changes or removes an existing file, and a flush whose computed
\* file name already exists returns the already-exists error.
C10_NeverOverwrites ==
    [][/\ \A p \in DOMAIN files : p \in DOMAIN files' /\ files'[p] = files[p]
       /\ (/\ ret' \notin {"-", "panic", "Err_CreateDir", "Err_NotADirectory"}
           /\ is_some(first_event_time)
           /\ is_some(last_event_time)
           /\ file_path \in DOMAIN files)
          => ret' = "Err_AlreadyExists"]_vars

\* C10 witness: a flush has just failed with the already-exists error while two
\* buffered entries exist and only the first is in a file.
C10_Witness ==
    /\ ret = "Err_AlreadyExists"
    /\ InSomeFile(1)
    /\ 2 \in added
    /\ ~InSomeFile(2)

\* C11: the callback is inside add_event only while it holds the session lock, the
\* main thread is inside the inactivity check or a flush only while it holds it, and
\* the two are never inside at the same time.
C11_MutualExclusion ==
    /\ cb_pc = "add" => lock = "cb"
    /\ pc \in {"check", "save", "final_save"} => lock = "main"
    /\ ~(cb_pc = "add" /\ pc \in {"check", "save", "final_save"})

\* C11 witness: the callback is blocked at its lock() while the supervisor, holding
\* the lock, is about to flush.
C11_Witness ==
    /\ cb_pc = "lock"
    /\ lock = "main"
    /\ pc = "save"

\* C12: the callback's handling of a message whose leading byte is Timing Clock
\* (0xF8 = 248) or Active Sensing (0xFE = 254) ends at once, with the buffer length,
\* first_event_time and last_event_time as they were and nothing left to deliver.
C12_ClockAndSensingIgnored ==
    [][\A status \in {248, 254} :
          Receive(status) =>
             /\ Len(events') = Len(events)
             /\ first_event_time' = first_event_time
             /\ last_event_time' = last_event_time
             /\ cb_pc' = "idle"
             /\ cb_event' = None]_vars

\* C12 witness: the second message was rejected by the filter while the first, a
\* channel-voice event, was in the buffer.
C12_Witness ==
    /\ filtered = 1
    /\ next_msg = 3
    /\ added = {1}
    /\ Len(events) = 1
    /\ is_some(last_event_time)

\* C13: a received message of a filtered category is dropped without harm: no
\* flush of the process panics and the process is never aborted.
C13_FilteredMessageHarmless ==
    /\ ret # "panic"
    /\ exit_code # Some(101)

\* C14: every buffer entry is a channel-voice event, and every entry of every
\* completely written file is a channel-voice event or the file's last entry, the
\* end-of-track marker.
C14_OnlyChannelVoiceStored ==
    /\ \A i \in 1..Len(events) : IsChannelVoice(events[i])
    /\ \A p \in DOMAIN files :
          files[p].complete =>
             LET track == files[p].content.track
             IN  \A i \in 1..Len(track) :
                    \/ IsChannelVoice(track[i])
                    \/ i = Len(track) /\ track[i].kind = "EndOfTrack"

\* C15: a session that has not been flushed holds exactly as many entries as
\* channel-voice events were handed to add_event, and every step that is not a flush
\* lengthens the buffer by exactly the number of channel-voice events it accepts; so
\* N accepted events fed to an idle session with no flush in between leave a buffer
\* of length N.
C15_BufferLengthIsAcceptedCount ==
    /\ [](dirs = {} /\ files = <<>> => Len(events) = Cardinality(added))
    /\ [][ret' = "-" =>
             Len(events') - Len(events) = Cardinality(added') - Cardinality(added)]_vars

\* C15 witness: three events were fed to the new session, two of them channel-voice,
\* with no flush, and the buffer holds two entries.
C15_Witness ==
    /\ dirs = {} /\ files = <<>>
    /\ next_msg = 4
    /\ Cardinality(added) = 2
    /\ Len(events) = 2

C17_FlushErrorIsFatal ==
    /\ ret \in FlushErrors => pc \in {"return_err", "done"}
    /\ pc = "return_err" => ret \in FlushErrors
    /\ (ret \in FlushErrors /\ exit_code # None) => exit_code = Some(1)
    /\ (final_ret = "Ok" /\ exit_code # None) => exit_code = Some(0)
    /\ exit_code = Some(1) => ret \in FlushErrors

\* C17 witness: the process has exited with status 1 after a supervisor flush failed
\* in write_all, the buffer still holding the entry.
C17_Witness ==
    /\ exit_code = Some(1)
    /\ ret = "Err_Write"
    /\ final_ret = "-"
    /\ events # <<>>

\* C18: the entry count in the name of every file a successful flush wrote equals
\* the number of entries of the track in that file, end-of-track marker included.
C18_NameCountIsEntryCount ==
    \A p \in DOMAIN files :
        files[p].complete => p.count = Len(files[p].content.track)

\* C18 witness: a successful flush after a failed one wrote a file named with count 3
\* that holds three entries, the second being the marker the failed flush left.
C18_Witness ==
    \E p \in DOMAIN files :
        /\ files[p].complete
        /\ p.count = 3
        /\ Len(files[p].content.track) = 3
        /\ files[p].content.track[2].kind = "EndOfTrack"

\* The buffer holds the channel-voice entry with payload m.
InBuffer(m) ==
    \E i \in 1..Len(events) : events[i].kind = "Midi" /\ events[i].msg = m

\* The complete files whose track holds the channel-voice entry with payload m.
FilesHolding(m) ==
    {p \in DOMAIN files :
        /\ files[p].complete
        /\ \E i \in 1..Len(files[p].content.track) :
              /\ files[p].content.track[i].kind = "Midi"
              /\ files[p].content.track[i].msg = m}

\* C19: while the process runs and no flush has failed, under every interleaving of
\* the callback, the supervisor flush and the final flush, every channel-voice event
\* add_event accepted is either in the buffer and in no file, or in exactly one
\* complete file and not in the buffer.
C19_BufferedOrInOneFile ==
    (exit_code = None /\ ret \notin FlushErrors) =>
        \A m \in added :
            \/ InBuffer(m) /\ FilesHolding(m) = {}
            \/ ~InBuffer(m) /\ Cardinality(FilesHolding(m)) = 1

\* C19 witness: the supervisor flush wrote the first event, the second arrived
\* afterwards and sits in the buffer while the main thread holds the lock for the
\* final flush.
C19_Witness ==
    /\ pc = "final_save"
    /\ Cardinality(FilesHolding(1)) = 1
    /\ ~InBuffer(1)
    /\ InBuffer(2)
    /\ FilesHolding(2) = {}

\* C20: with the supervisor polling every SleepSecs, every add_event call measures
\* at most InactivitySecs + SleepSecs since last_event_time, so its tick count is
\* below 2^28 and the delta of the entry it pushes is that tick count, unwrapped.
C20_TicksFitU28 ==
    [][CbAddEvent =>
          LET elapsed_since_last ==
                  IF is_some(last_event_time)
                  THEN duration_since(now, unwrap(last_event_time))
                  ELSE 0
          IN  /\ elapsed_since_last <= (InactivitySecs + SleepSecs) * UsecPerSec
              /\ delta_ticks_of(elapsed_since_last) < U28Modulus
              /\ Len(events') > Len(events) =>
                    events'[Len(events')].delta = delta_ticks_of(elapsed_since_last)]_vars

\* C20 witness: two entries, the second pushed InactivitySecs + SleepSecs after the
\* first, just before the supervisor's check, with the largest delta that occurs.
C20_Witness ==
    /\ Len(events) = 2
    /\ events[2].delta = delta_ticks_of((InactivitySecs + SleepSecs) * UsecPerSec)
    /\ events[2].delta < U28Modulus
    /\ pc = "try_lock"

====
